---- MODULE Spec2Model ----
(***************************************************************************)
(* A model of balsam's client-side query layer, src/balsam/api/query.py:   *)
(* the Manager (entry point and bulk operations), the Query (lazy builder) *)
(* and the BaseIterable/ModelIterable materializer.                        *)
(*                                                                         *)
(* Python values are modelled as follows.                                  *)
(*   None           the empty tuple <<>>; a present value v is <<v>>       *)
(*   dict           a function from a set of keys to values                *)
(*   list / tuple   [kind |-> "list" | "tuple", items |-> sequence]        *)
(*   an object      a record of its attributes; its identity is its index  *)
(*                  in the heap that holds it (queries, heap)               *)
(*   an exception   [t |-> <class name>, ...]                              *)
(* A call's outcome is [out |-> "return" | "raise", val |-> value].        *)
(***************************************************************************)
EXTENDS Integers, Sequences, FiniteSets, TLC

VARIABLES
    queries,    \* the Query objects the caller holds, by identity (index)
    heap,       \* the Model instances (and other objects) alive, by identity
    instances,  \* the caller's container handed to bulk_create / bulk_update
    calls,      \* the requests the Remote Resource has received, in order
    last        \* the caller's latest call: what was called and its outcome

vars == <<queries, heap, instances, calls, last>>

----------------------------------------------------------------------------
(* Bounds of the model. *)

MaxQueries == 3     \* Query objects held at once
MaxRows == 2        \* rows in one list response
MaxCalls == 1       \* a call starts only while the remote's log is shorter

(* query.py line 1 *)
REPR_OUTPUT_SIZE == 20

----------------------------------------------------------------------------
(* Python values. *)

None == <<>>
Some(v) == <<v>>
EmptyMap == <<>>

Return(v) == [out |-> "return", val |-> v]
Raise(e) == [out |-> "raise", val |-> e]
Exc(name) == [t |-> name]
PyNone == [t |-> "None"]

(* dict.update: the keys of p override equal keys of m, the others stay. *)
DictUpdate(m, p) ==
    [k \in (DOMAIN m) \cup (DOMAIN p) |-> IF k \in DOMAIN p THEN p[k] ELSE m[k]]

(* The attributes each constructor assigns (plus the class attributes): an  *)
(* attribute read of any other name raises AttributeError.                  *)
ManagerAttrs ==
    {"model_class", "unique_field", "list_is_paginated",
     "_resource", "_model", "_unique_field"}

BaseIterableAttrs == {"query"}

QueryAttrs ==
    {"model_class", "_result_cache", "_filters", "_excludes", "_order_fields",
     "_iterable_class", "_count", "_limit", "_offset"}

(* The keyword parameters Query.__init__ accepts. *)
QueryInitParams == {"model_class"}

(* The bound Model: its unique field and its declared field names. *)
UniqueField == "pk"
FieldNames == {"name", "state"}

----------------------------------------------------------------------------
(* What the caller and the Remote Resource may supply. *)

(* Keyword predicates of filter/exclude/get: one overrides the other's "x". *)
Kwargs == { [x |-> 1], [x |-> 2, y |-> 1] }

(* Field specifiers of order_by. *)
OrderArgs == { <<"x">>, <<"-x", "y">> }

Slice(a, b, s) == [t |-> "slice", start |-> a, stop |-> b, step |-> s]

(* The index of q[k]: an int, a slice, or a value of another type. *)
Indices ==
    {[t |-> "int", v |-> i] : i \in {-1, 0, 3}}
    \cup {Slice(Some(2), Some(5), None), Slice(Some(0), Some(2), None),
          Slice(Some(5), Some(2), None), Slice(None, Some(2), None),
          Slice(Some(2), None, None), Slice(None, None, None),
          Slice(Some(-1), Some(2), None), Slice(Some(2), Some(-1), None),
          Slice(Some(0), Some(2), Some(2))}
    \cup {[t |-> "str"]}

(* Raw rows of the bound Model. *)
Rows == {[pk |-> p, name |-> n, state |-> "s"] : p \in 1..2, n \in {"a", "b"}}

RowSeqs(n) == UNION {[1..m -> Rows] : m \in 0..n}

(* A list response: a total count and the rows, or the remote's failure. *)
Responses ==
    {[ok |-> TRUE, count |-> c, rows |-> rs] :
        c \in 0..(MaxRows + 1), rs \in RowSeqs(MaxRows)}
    \cup {[ok |-> FALSE, count |-> 0, rows |-> <<>>]}

----------------------------------------------------------------------------
(* Query: construction, cloning, limits (query.py lines 95-178). *)

(* Query.__init__, lines 96-105. *)
Query__init__ ==
    [result_cache |-> None,
     filters |-> EmptyMap,
     excludes |-> EmptyMap,
     order_fields |-> [kind |-> "list", items |-> <<>>],
     count |-> None,
     limit |-> None,
     offset |-> None]

(* Query.is_sliced, lines 162-164. *)
is_sliced(q) == q.limit = None \/ q.offset = None

(* Query._clone, lines 166-174: each container is copied with .copy(), which *)
(* a tuple does not have; the cache and the count are not carried over.      *)
Query_clone(q) ==
    IF q.order_fields.kind = "tuple"
    THEN Raise(Exc("AttributeError"))
    ELSE Return([Query__init__ EXCEPT !.filters = q.filters,
                                      !.excludes = q.excludes,
                                      !.order_fields = q.order_fields,
                                      !.limit = q.limit,
                                      !.offset = q.offset])

(* Query._set_limits, lines 176-178: stop - start on a None is a TypeError. *)
Query_set_limits(q, start, stop) ==
    IF start = None \/ stop = None
    THEN Raise(Exc("TypeError"))
    ELSE Return([q EXCEPT !.offset = start,
                          !.limit = Some(stop[1] - start[1])])

----------------------------------------------------------------------------
(* Materialization (lines 67-92, 180-189).  An operation that may reach the *)
(* Remote Resource yields the set of its possible results                   *)
(*   [out, val, self, calls]                                                *)
(* self being the receiver afterwards and calls the remote's log.           *)

Res(o, q, log) == [out |-> o.out, val |-> o.val, self |-> q, calls |-> log]

(* The remote's log with one more request and the answer it gave. *)
Logged(log, request, resp) == Append(log, [req |-> request, resp |-> resp])

(* The list request of BaseIterable.__iter__, lines 73-81. *)
ListCall(by, q) ==
    [op |-> "list", by |-> by,
     fields |-> {UniqueField} \cup FieldNames,
     filters |-> q.filters,
     excludes |-> q.excludes,
     order_by |-> Some(q.order_fields),
     limit |-> q.limit,
     offset |-> q.offset,
     count_only |-> FALSE]

(* BaseIterable.__iter__, lines 71-83: self._resource is read on the         *)
(* iterable, whose only attribute is query.                                  *)
BaseIterable__iter__(q, by, log) ==
    IF "_resource" \notin BaseIterableAttrs
    THEN {Res(Raise(Exc("AttributeError")), q, log)}
    ELSE {IF resp.ok
          THEN Res(Return([t |-> "rows", items |-> resp.rows]),
                   [q EXCEPT !.count = Some(resp.count)],
                   Logged(log, ListCall(by, q), resp))
          ELSE Res(Raise(Exc("RemoteError")), q,
                   Logged(log, ListCall(by, q), resp))
          : resp \in Responses}

(* ModelIterable._iter_results, lines 90-92: one Model instance per row. *)
ModelIterable_iter_results(rows) ==
    [i \in 1..Len(rows) |-> [t |-> "Model", fields |-> rows[i]]]

(* Query._fetch_cache with Query._query_iterator, lines 180-185. *)
Query_fetch_cache(q, by, log) ==
    IF q.result_cache # None
    THEN {Res(Return(PyNone), q, log)}
    ELSE {IF it.out = "raise"
          THEN it
          ELSE Res(Return(PyNone),
                   [it.self EXCEPT !.result_cache =
                        Some(ModelIterable_iter_results(it.val.items))],
                   it.calls)
          : it \in BaseIterable__iter__(q, by, log)}

(* Query.__len__, lines 119-121. *)
Query__len__(q, by, log) ==
    {IF f.out = "raise"
     THEN f
     ELSE Res(Return([t |-> "int", v |-> Len(f.self.result_cache[1])]),
              f.self, f.calls)
     : f \in Query_fetch_cache(q, by, log)}

(* Query.__bool__, lines 123-125. *)
Query__bool__(q, by, log) ==
    {IF f.out = "raise"
     THEN f
     ELSE Res(Return([t |-> "bool", v |-> Len(f.self.result_cache[1]) > 0]),
              f.self, f.calls)
     : f \in Query_fetch_cache(q, by, log)}

(* Query.__iter__, lines 187-189; list(q) is the sequence it yields. *)
Query__iter__(q, by, log) ==
    {IF f.out = "raise"
     THEN f
     ELSE Res(Return([t |-> "list", items |-> f.self.result_cache[1]]),
              f.self, f.calls)
     : f \in Query_fetch_cache(q, by, log)}

----------------------------------------------------------------------------
(* Indexing and slicing (lines 127-160). *)

Min(a, b) == IF a < b THEN a ELSE b

(* list[k] for a non-negative int or a slice with non-negative bounds. *)
PyGetItem(items, k) ==
    IF k.t = "int"
    THEN IF k.v < Len(items)
         THEN Return(items[k.v + 1])
         ELSE Raise(Exc("IndexError"))
    ELSE LET n == Len(items)
             lo == IF k.start = None THEN 0 ELSE Min(k.start[1], n)
             hi == IF k.stop = None THEN n ELSE Min(k.stop[1], n)
             st == IF k.step = None THEN 1 ELSE k.step[1]
             picked == {i \in lo..(hi - 1) : (i - lo) % st = 0}
         IN  Return([t |-> "list",
                     items |-> [j \in 1..Cardinality(picked) |->
                                   items[lo + (j - 1) * st + 1]]])

(* The assertion of lines 135-139. *)
IndexInRange(k) ==
    \/ k.t = "int" /\ k.v >= 0
    \/ /\ k.t = "slice"
       /\ (k.start = None \/ k.start[1] >= 0)
       /\ (k.stop = None \/ k.stop[1] >= 0)

(* A slice that sets the limits on the receiver itself, with no clone. *)
GetSliceInPlace(q, k, log) ==
    LET lim == Query_set_limits(q, k.start, k.stop)
    IN  IF lim.out = "raise" THEN {Res(lim, q, log)}
        ELSE {Res(Return([t |-> "Query", q |-> lim.val]), lim.val, log)}

(* Lines 144-155: the slice of a Query with no cache. *)
GetSlice(q, k, log) ==
    LET c == Query_clone(q)
        lim == Query_set_limits(c.val, k.start, k.stop)
    IN  IF c.out = "raise" THEN {Res(c, q, log)}
        ELSE IF lim.out = "raise" THEN {Res(lim, q, log)}
        ELSE IF k.step # None /\ k.step[1] # 0
        THEN {IF it.out = "raise"
              THEN Res(it, q, it.calls)
              ELSE Res(PyGetItem(it.val.items, Slice(None, None, k.step)),
                       q, it.calls)
              : it \in Query__iter__(lim.val, 0, log)}
        ELSE {Res(Return([t |-> "Query", q |-> lim.val]), q, log)}

(* Lines 156-160: the int index of a Query with no cache. *)
GetIndex(q, k, log) ==
    LET c == Query_clone(q)
        lim == Query_set_limits(c.val, Some(k.v), Some(k.v + 1))
    IN  IF c.out = "raise" THEN {Res(c, q, log)}
        ELSE IF lim.out = "raise" THEN {Res(lim, q, log)}
        ELSE {IF f.out = "raise"
              THEN Res(f, q, f.calls)
              ELSE Res(PyGetItem(f.self.result_cache[1], [t |-> "int", v |-> 0]),
                       q, f.calls)
              : f \in Query_fetch_cache(lim.val, 0, log)}

(* Query.__getitem__, lines 127-160. *)
Query__getitem__(q, k, log) ==
    IF k.t \notin {"int", "slice"} THEN {Res(Raise(Exc("TypeError")), q, log)}
    ELSE IF ~IndexInRange(k) THEN {Res(Raise(Exc("AssertionError")), q, log)}
    ELSE IF q.result_cache # None
    THEN {Res(PyGetItem(q.result_cache[1], k), q, log)}
    ELSE IF k.t = "slice" THEN GetSlice(q, k, log)
    ELSE GetIndex(q, k, log)

(* Query.__repr__, lines 113-117: list(self[:REPR_OUTPUT_SIZE + 1]), the     *)
(* last of more than REPR_OUTPUT_SIZE elements replaced by the marker.       *)
ReprOf(data) ==
    [t |-> "str",
     shown |-> IF Len(data) > REPR_OUTPUT_SIZE
               THEN SubSeq(data, 1, Len(data) - 1) ELSE data,
     truncated |-> Len(data) > REPR_OUTPUT_SIZE]

Query__repr__(q, log) ==
    UNION {
        IF g.out = "raise" THEN {g}
        ELSE IF g.val.t = "list" THEN {Res(Return(ReprOf(g.val.items)), q, g.calls)}
        ELSE {IF it.out = "raise"
              THEN Res(it, q, it.calls)
              ELSE Res(Return(ReprOf(it.val.items)), q, it.calls)
              : it \in Query__iter__(g.val.q, 0, g.calls)}
        : g \in Query__getitem__(q,
                    Slice(None, Some(REPR_OUTPUT_SIZE + 1), None), log)}

----------------------------------------------------------------------------
(* Narrowing (lines 191-210): each returns its value, an exception instance *)
(* when is_sliced holds.                                                    *)

(* Query.filter, lines 191-196. *)
Query_filter(q, kwargs) ==
    LET c == Query_clone(q)
    IN  IF is_sliced(q) THEN Return(Exc("AttributeError"))
        ELSE IF c.out = "raise" THEN c
        ELSE Return([t |-> "Query",
                     q |-> [c.val EXCEPT !.filters = DictUpdate(@, kwargs)]])

(* Query.exclude, lines 198-203. *)
Query_exclude(q, kwargs) ==
    LET c == Query_clone(q)
    IN  IF is_sliced(q) THEN Return(Exc("AttributeError"))
        ELSE IF c.out = "raise" THEN c
        ELSE Return([t |-> "Query",
                     q |-> [c.val EXCEPT !.excludes = DictUpdate(@, kwargs)]])

(* Query.order_by, lines 205-210: the order list becomes a tuple. *)
Query_order_by(q, fields) ==
    LET c == Query_clone(q)
    IN  IF is_sliced(q) THEN Return(Exc("AttributeError"))
        ELSE IF c.out = "raise" THEN c
        ELSE Return([t |-> "Query",
                     q |-> [c.val EXCEPT !.order_fields =
                                [kind |-> "tuple", items |-> fields]]])

----------------------------------------------------------------------------
(* Methods that do not return a Query (lines 214-237). *)

(* Query.get, lines 214-223: list(clone) of a value that is no Query is a   *)
(* TypeError.                                                               *)
Query_get(q, kwargs, log) ==
    LET f == Query_filter(q, kwargs)
    IN  IF f.out = "raise" THEN {Res(f, q, log)}
        ELSE IF f.val.t # "Query" THEN {Res(Raise(Exc("TypeError")), q, log)}
        ELSE {IF it.out = "raise" THEN Res(it, q, it.calls)
              ELSE IF Len(it.val.items) = 1
                   THEN Res(Return(it.val.items[1]), q, it.calls)
              ELSE IF Len(it.val.items) = 0
                   THEN Res(Raise(Exc("DoesNotExist")), q, it.calls)
              ELSE Res(Raise([t |-> "MultipleObjectsReturned",
                              n |-> Len(it.val.items)]), q, it.calls)
              : it \in Query__iter__(f.val.q, 0, log)}

(* The count-only request of Query.count, lines 227-235. *)
CountCall(by, q) ==
    [op |-> "list", by |-> by,
     fields |-> {},
     filters |-> q.filters,
     excludes |-> q.excludes,
     order_by |-> None,
     limit |-> Some(0),
     offset |-> q.offset,
     count_only |-> TRUE]

(* Query.count, lines 225-237: self._resource is read on the Query. *)
Query_count(q, by, log) ==
    IF q.count # None
    THEN {Res(Return([t |-> "int", v |-> q.count[1]]), q, log)}
    ELSE IF "_resource" \notin QueryAttrs
    THEN {Res(Raise(Exc("AttributeError")), q, log)}
    ELSE {IF resp.ok
          THEN Res(Return([t |-> "int", v |-> resp.count]),
                   [q EXCEPT !.count = Some(resp.count)],
                   Logged(log, CountCall(by, q), resp))
          ELSE Res(Raise(Exc("RemoteError")), q,
                   Logged(log, CountCall(by, q), resp))
          : resp \in Responses}

----------------------------------------------------------------------------
(* Manager: the entry points (lines 14-21).  Each builds its Query with the *)
(* keyword manager=, which Query.__init__ does not accept.                  *)

ManagerNewQuery ==
    IF "manager" \notin QueryInitParams
    THEN Raise(Exc("TypeError"))
    ELSE Return([t |-> "Query", q |-> Query__init__])

(* Manager.all, lines 14-15. *)
Manager_all == ManagerNewQuery

(* Manager.filter, lines 17-18. *)
Manager_filter(kwargs) ==
    IF ManagerNewQuery.out = "raise" THEN ManagerNewQuery
    ELSE Query_filter(ManagerNewQuery.val.q, kwargs)

(* Manager.get, lines 20-21. *)
Manager_get(kwargs, log) ==
    IF ManagerNewQuery.out = "raise"
    THEN {Res(ManagerNewQuery, Query__init__, log)}
    ELSE Query_get(ManagerNewQuery.val.q, kwargs, log)

----------------------------------------------------------------------------
(* Manager: the bulk operations (lines 23-61).  A bulk operation yields the *)
(* set of its possible results                                              *)
(*   [out, val, heap, items, calls]                                         *)
(* items being the caller's container afterwards.                           *)

BRes(o, hp, items, log) ==
    [out |-> o.out, val |-> o.val, heap |-> hp, items |-> items,
     calls |-> log]

IsModel(obj) == obj.cls = "Model"

(* Manager.to_dict, lines 57-58: instance.dict(). *)
Manager_to_dict(obj) == obj.fields

(* A from_dict that builds the instance without the record's name. *)
FromDictDroppingName(data) ==
    [cls |-> "Model", fields |-> [data EXCEPT !.name = "a"]]

(* Manager.from_dict, lines 60-61: a new instance, Model.construct of data. *)
Manager_from_dict(data) == [cls |-> "Model", fields |-> data]

(* What the caller may pass as update_fields. *)
UpdateFieldSets == { {}, {"name"}, {"pk", "name"} }

(* The remote's answer to bulk_create: one record per record sent, in the   *)
(* order sent, or its failure.                                              *)
CreateResponses(data_list) ==
    {[ok |-> TRUE, records |-> rs] : rs \in [1..Len(data_list) -> Rows]}
    \cup {[ok |-> FALSE, records |-> <<>>]}

(* The remote's answer to bulk_update_patch: at most one record per patch, *)
(* in any order and of any unique-field value, or its failure.              *)
UpdateResponses(patch_list) ==
    {[ok |-> TRUE, records |-> rs] : rs \in RowSeqs(Len(patch_list))}
    \cup {[ok |-> FALSE, records |-> <<>>]}

(* Manager.bulk_create, lines 23-36. *)
Manager_bulk_create(arg, hp, log) ==
    IF arg.kind # "list"
    THEN {BRes(Raise(Exc("TypeError")), hp, arg.items, log)}
    ELSE IF \E i \in 1..Len(arg.items) : ~IsModel(hp[arg.items[i]])
    THEN {BRes(Raise(Exc("AssertionError")), hp, arg.items, log)}
    ELSE IF "_resource" \notin ManagerAttrs
    THEN {BRes(Raise(Exc("AttributeError")), hp, arg.items, log)}
    ELSE LET data_list == [i \in 1..Len(arg.items) |->
                              Manager_to_dict(hp[arg.items[i]])]
             request == [op |-> "bulk_create", data |-> data_list]
         IN  {IF resp.ok
              THEN BRes(Return([t |-> "list",
                                ids |-> [i \in 1..Len(resp.records) |->
                                            Len(hp) + i]]),
                        hp \o [i \in 1..Len(resp.records) |->
                                  Manager_from_dict(resp.records[i])],
                        arg.items, Logged(log, request, resp))
              ELSE BRes(Raise(Exc("RemoteError")), hp, arg.items,
                        Logged(log, request, resp))
              : resp \in CreateResponses(data_list)}

(* Line 44: the patch of one serialized instance. *)
PatchOf(d, update_fields) == [key \in update_fields |-> d[key]]

(* A response map keyed by position in the response, not by unique field. *)
ResponseMapByPosition(records) == [j \in 1..Len(records) |-> records[j]]

(* Line 47: the response keyed by unique field, a later record replacing an *)
(* earlier one of the same key.                                             *)
ResponseMap(records) ==
    [pk \in {records[j][UniqueField] : j \in 1..Len(records)} |->
        records[CHOOSE j \in 1..Len(records) :
                    /\ records[j][UniqueField] = pk
                    /\ \A m \in (j + 1)..Len(records) :
                           records[m][UniqueField] # pk]]

(* Lines 50-53: the loop that replaces instances[i], from index i on. *)
RECURSIVE UpdateLoop(_, _, _, _, _)
UpdateLoop(i, kind, items, hp, response_map) ==
    IF i > Len(items)
    THEN [out |-> "return", val |-> PyNone, heap |-> hp, items |-> items]
    ELSE LET pk == hp[items[i]].fields[UniqueField]
         IN  IF pk \notin DOMAIN response_map
             THEN [out |-> "raise", val |-> Exc("KeyError"),
                   heap |-> hp, items |-> items]
             ELSE IF kind # "list"
             THEN [out |-> "raise", val |-> Exc("TypeError"),
                   heap |-> hp, items |-> items]
             ELSE UpdateLoop(i + 1, kind,
                             [items EXCEPT ![i] = Len(hp) + 1],
                             Append(hp, Manager_from_dict(response_map[pk])),
                             response_map)

(* Manager.bulk_update, lines 38-55. *)
Manager_bulk_update(arg, update_fields, hp, log) ==
    IF \E i \in 1..Len(arg.items) : ~IsModel(hp[arg.items[i]])
    THEN {BRes(Raise(Exc("AttributeError")), hp, arg.items, log)}
    ELSE IF "_resource" \notin ManagerAttrs
    THEN {BRes(Raise(Exc("AttributeError")), hp, arg.items, log)}
    ELSE LET data_list == [i \in 1..Len(arg.items) |->
                              Manager_to_dict(hp[arg.items[i]])]
             patch_list == [i \in 1..Len(data_list) |->
                               PatchOf(data_list[i], update_fields)]
             request == [op |-> "bulk_update_patch", data |-> patch_list]
         IN  {IF resp.ok
              THEN LET done == UpdateLoop(1, arg.kind, arg.items, hp,
                                          ResponseMap(resp.records))
                   IN  BRes(done, done.heap, done.items,
                            Logged(log, request, resp))
              ELSE BRes(Raise(Exc("RemoteError")), hp, arg.items,
                        Logged(log, request, resp))
              : resp \in UpdateResponses(patch_list)}

----------------------------------------------------------------------------
(* The state machine.  The caller holds Query objects and Model instances   *)
(* and makes one call at a time; each action is one call, run to its end.   *)

(* The objects the caller constructed itself: two instances of the bound    *)
(* Model and one object of another class.                                   *)
InitHeap ==
    << [cls |-> "Model", fields |-> [pk |-> 1, name |-> "a", state |-> "s"]],
       [cls |-> "Model", fields |-> [pk |-> 2, name |-> "b", state |-> "s"]],
       [cls |-> "Other"] >>

(* The containers the caller may build to hand to a bulk operation: lists  *)
(* of its objects (by identity), and a tuple.  It may also hand over the    *)
(* container of its previous bulk call, as that call left it.               *)
Containers ==
    {[kind |-> "list", items |-> it] :
        it \in {<<>>, <<1>>, <<1, 2>>, <<1, 1>>, <<3>>}}
    \cup {[kind |-> "tuple", items |-> <<1, 2>>]}

Init ==
    /\ queries = <<>>
    /\ heap = InitHeap
    /\ instances = [kind |-> "list", items |-> <<>>]
    /\ calls = <<>>
    /\ last = [op |-> "init"]

WithSelf(id, q) == IF id = 0 THEN queries ELSE [queries EXCEPT ![id] = q]

(* A call on Query id (0: on the Manager) ends with result r: a returned    *)
(* Query becomes an object the caller holds.                                *)
QStep(op, id, arg, r) ==
    /\ Len(calls) < MaxCalls
    /\ IF r.out = "return" /\ r.val.t = "Query"
       THEN /\ Len(queries) < MaxQueries
            /\ queries' = Append(WithSelf(id, r.self), r.val.q)
            /\ last' = [op |-> op, recv |-> id, arg |-> arg, out |-> r.out,
                        val |-> [t |-> "Query", id |-> Len(queries) + 1]]
       ELSE /\ queries' = WithSelf(id, r.self)
            /\ last' = [op |-> op, recv |-> id, arg |-> arg, out |-> r.out,
                        val |-> r.val]
    /\ calls' = r.calls
    /\ UNCHANGED <<heap, instances>>

(* The caller constructs Query(model_class), lines 96-105. *)
NewQuery ==
    QStep("Query", 0, None,
          Res(Return([t |-> "Query", q |-> Query__init__]), Query__init__, calls))

DoFilter ==
    \E id \in DOMAIN queries, kw \in Kwargs :
        QStep("filter", id, kw, Res(Query_filter(queries[id], kw), queries[id], calls))

DoExclude ==
    \E id \in DOMAIN queries, kw \in Kwargs :
        QStep("exclude", id, kw, Res(Query_exclude(queries[id], kw), queries[id], calls))

DoOrderBy ==
    \E id \in DOMAIN queries, fields \in OrderArgs :
        QStep("order_by", id, fields,
              Res(Query_order_by(queries[id], fields), queries[id], calls))

DoGetItem ==
    \E id \in DOMAIN queries, k \in Indices :
        \E r \in Query__getitem__(queries[id], k, calls) :
            QStep("getitem", id, k, r)

DoLen ==
    \E id \in DOMAIN queries :
        \E r \in Query__len__(queries[id], id, calls) : QStep("len", id, None, r)

DoBool ==
    \E id \in DOMAIN queries :
        \E r \in Query__bool__(queries[id], id, calls) : QStep("bool", id, None, r)

DoIter ==
    \E id \in DOMAIN queries :
        \E r \in Query__iter__(queries[id], id, calls) : QStep("iter", id, None, r)

DoRepr ==
    \E id \in DOMAIN queries :
        \E r \in Query__repr__(queries[id], calls) : QStep("repr", id, None, r)

DoCount ==
    \E id \in DOMAIN queries :
        \E r \in Query_count(queries[id], id, calls) : QStep("count", id, None, r)

DoGet ==
    \E id \in DOMAIN queries, kw \in Kwargs :
        \E r \in Query_get(queries[id], kw, calls) : QStep("get", id, kw, r)

DoManagerAll ==
    QStep("Manager.all", 0, None, Res(Manager_all, Query__init__, calls))

DoManagerFilter ==
    \E kw \in Kwargs :
        QStep("Manager.filter", 0, kw, Res(Manager_filter(kw), Query__init__, calls))

DoManagerGet ==
    \E kw \in Kwargs :
        \E r \in Manager_get(kw, calls) : QStep("Manager.get", 0, kw, r)

(* A bulk call with container arg ends with result r. *)
BStep(op, arg, fields, r) ==
    /\ Len(calls) < MaxCalls
    /\ heap' = r.heap
    /\ instances' = [kind |-> arg.kind, items |-> r.items]
    /\ calls' = r.calls
    /\ last' = [op |-> op, recv |-> 0, arg |-> arg, update_fields |-> fields,
                out |-> r.out, val |-> r.val]
    /\ UNCHANGED queries

DoBulkCreate ==
    \E arg \in Containers \cup {instances} :
        \E r \in Manager_bulk_create(arg, heap, calls) :
            BStep("bulk_create", arg, {}, r)

DoBulkUpdate ==
    \E arg \in Containers \cup {instances}, update_fields \in UpdateFieldSets :
        \E r \in Manager_bulk_update(arg, update_fields, heap, calls) :
            BStep("bulk_update", arg, update_fields, r)

NextQuery ==
    \/ NewQuery
    \/ DoFilter
    \/ DoExclude
    \/ DoOrderBy
    \/ DoGetItem
    \/ DoLen
    \/ DoBool
    \/ DoIter
    \/ DoRepr
    \/ DoCount
    \/ DoGet
    \/ DoManagerAll
    \/ DoManagerFilter
    \/ DoManagerGet

NextManager ==
    \/ DoBulkCreate
    \/ DoBulkUpdate

(* The Query side: the builder, its consumption, the Manager's entry points. *)
SpecQuery == Init /\ [][NextQuery]_vars

(* The Manager's bulk operations. *)
SpecManager == Init /\ [][NextManager]_vars

Next == NextQuery \/ NextManager

Spec == Init /\ [][Next]_vars

----------------------------------------------------------------------------
(* The vocabulary of the properties. *)

(* Sliced, as the specification defines it: limit and offset are both set. *)
Sliced(q) == q.limit # None /\ q.offset # None

Consumptions == {"len", "bool", "iter"}
Narrowings == {"filter", "exclude", "order_by"}

(* The list requests (not count-only) the remote received for Query id. *)
ListCallsBy(id, log) ==
    {i \in DOMAIN log :
        /\ log[i].req.op = "list"
        /\ ~log[i].req.count_only
        /\ log[i].req.by = id}

(* The step made exactly one request; NewCall is that request's log entry. *)
OneNewCall == Len(calls') = Len(calls) + 1
NewCall == calls'[Len(calls')]

----------------------------------------------------------------------------
(* C1: a consumption (iteration, len(), bool()) of a Query instance with   *)
(* no cache makes exactly one list request, for that instance, and caches   *)
(* the answered rows on it; a consumption of an instance with a cache makes *)
(* no request and returns.  So an instance whose consumption returned has   *)
(* had exactly one list request answered.                                   *)
C1_OneListCallPerInstance ==
    [][ last'.op \in Consumptions =>
            /\ IF queries[last'.recv].result_cache = None
               THEN /\ OneNewCall
                    /\ NewCall.req.op = "list"
                    /\ ~NewCall.req.count_only
                    /\ NewCall.req.by = last'.recv
                    /\ NewCall.resp.ok =>
                           /\ last'.out = "return"
                           /\ queries'[last'.recv].result_cache # None
               ELSE /\ calls' = calls
                    /\ last'.out = "return"
                    /\ queries'[last'.recv].result_cache =
                           queries[last'.recv].result_cache
            /\ last'.out = "return" =>
                   Cardinality({i \in ListCallsBy(last'.recv, calls') :
                                    calls'[i].resp.ok}) = 1 ]_vars

(* C2: on a Query that is not Sliced, filter(p) returns a new Query whose   *)
(* filter map is the receiver's updated with p, and leaves the receiver as  *)
(* it was; likewise exclude(p) with the exclude map.                        *)
C2_FilterMergesAndLeavesReceiver ==
    [][ (last'.op \in {"filter", "exclude"} /\ ~Sliced(queries[last'.recv])) =>
            /\ last'.out = "return"
            /\ last'.val.t = "Query"
            /\ last'.op = "filter" =>
                   queries'[last'.val.id].filters =
                       DictUpdate(queries[last'.recv].filters, last'.arg)
            /\ last'.op = "exclude" =>
                   queries'[last'.val.id].excludes =
                       DictUpdate(queries[last'.recv].excludes, last'.arg)
            /\ queries'[last'.recv] = queries[last'.recv] ]_vars

(* C3: filter, exclude and order_by raise an error when the receiver is     *)
(* Sliced, and only then: on any other Query they return a Query.           *)
C3_NarrowingFailsExactlyWhenSliced ==
    last.op \in Narrowings =>
        IF Sliced(queries[last.recv])
        THEN last.out = "raise"
        ELSE last.out = "return" /\ last.val.t = "Query"

(* C4: q[a:b] with 0 <= a <= b and no step, on a Query with no cache, makes *)
(* no request and returns a Query with offset a and limit b - a and q's     *)
(* filter, exclude and order state; the first consumption of a Query with   *)
(* limit and offset set makes exactly one list request carrying them.       *)
C4_SliceIsLazyThenOneFetch ==
    [][ /\ ( /\ last'.op = "getitem"
             /\ last'.arg.t = "slice"
             /\ last'.arg.step = None
             /\ last'.arg.start # None
             /\ last'.arg.stop # None
             /\ 0 <= last'.arg.start[1]
             /\ last'.arg.start[1] <= last'.arg.stop[1]
             /\ queries[last'.recv].result_cache = None )
           => /\ calls' = calls
              /\ last'.out = "return"
              /\ last'.val.t = "Query"
              /\ LET q == queries[last'.recv]
                     new == queries'[last'.val.id]
                 IN  /\ new.offset = last'.arg.start
                     /\ new.limit = Some(last'.arg.stop[1] - last'.arg.start[1])
                     /\ new.filters = q.filters
                     /\ new.excludes = q.excludes
                     /\ new.order_fields = q.order_fields
        /\ ( /\ last'.op \in Consumptions
             /\ Sliced(queries[last'.recv])
             /\ queries[last'.recv].result_cache = None )
           => /\ OneNewCall
              /\ LET q == queries[last'.recv]
                 IN  /\ NewCall.req.op = "list"
                     /\ ~NewCall.req.count_only
                     /\ NewCall.req.offset = q.offset
                     /\ NewCall.req.limit = q.limit
                     /\ NewCall.req.filters = q.filters
                     /\ NewCall.req.excludes = q.excludes
                     /\ NewCall.req.order_by = Some(q.order_fields) ]_vars

(* C5: q[k] with k >= 0, on a Query with no cache, makes exactly one list   *)
(* request with offset k and limit 1 and returns the fetched row; when the  *)
(* fetch yields no row it raises, and it never returns None.                *)
C5_IndexFetchesOneRow ==
    [][ ( /\ last'.op = "getitem"
          /\ last'.arg.t = "int"
          /\ last'.arg.v >= 0
          /\ queries[last'.recv].result_cache = None )
        => /\ OneNewCall
           /\ NewCall.req.op = "list"
           /\ NewCall.req.offset = Some(last'.arg.v)
           /\ NewCall.req.limit = Some(1)
           /\ IF NewCall.resp.ok /\ Len(NewCall.resp.rows) > 0
              THEN /\ last'.out = "return"
                   /\ last'.val = [t |-> "Model", fields |-> NewCall.resp.rows[1]]
              ELSE last'.out = "raise" ]_vars

(* C6: count() makes a count-only request (limit 0, no order_by, the        *)
(* receiver's filter and exclude maps) only when no count is cached, and    *)
(* caches the answer; with a count cached, by an earlier count() or by a    *)
(* list fetch, it makes no request and returns the cached count.            *)
C6_CountRequestsOnce ==
    [][ last'.op = "count" =>
            LET q == queries[last'.recv]
            IN  IF q.count = None
                THEN /\ OneNewCall
                     /\ NewCall.req.op = "list"
                     /\ NewCall.req.count_only
                     /\ NewCall.req.limit = Some(0)
                     /\ NewCall.req.order_by = None
                     /\ NewCall.req.filters = q.filters
                     /\ NewCall.req.excludes = q.excludes
                     /\ NewCall.resp.ok =>
                            /\ last'.out = "return"
                            /\ last'.val = [t |-> "int", v |-> NewCall.resp.count]
                            /\ queries'[last'.recv].count = Some(NewCall.resp.count)
                ELSE /\ calls' = calls
                     /\ last'.out = "return"
                     /\ last'.val = [t |-> "int", v |-> q.count[1]] ]_vars

(* C7: Manager.get(p) and Query.get(p) make one list request for the        *)
(* receiver's filters merged with p, then return the row when one row       *)
(* matches, raise the Model's not-found error when none does, and raise its *)
(* multiple-results error carrying n when n > 1 rows match.                 *)
C7_GetRequiresExactlyOneRow ==
    [][ last'.op \in {"get", "Manager.get"} =>
            LET base == IF last'.op = "get"
                        THEN queries[last'.recv].filters ELSE EmptyMap
            IN  /\ OneNewCall
                /\ NewCall.req.op = "list"
                /\ NewCall.req.filters = DictUpdate(base, last'.arg)
                /\ NewCall.resp.ok =>
                       LET n == Len(NewCall.resp.rows)
                       IN  IF n = 1
                           THEN /\ last'.out = "return"
                                /\ last'.val = [t |-> "Model",
                                                fields |-> NewCall.resp.rows[1]]
                           ELSE IF n = 0
                           THEN /\ last'.out = "raise"
                                /\ last'.val = Exc("DoesNotExist")
                           ELSE /\ last'.out = "raise"
                                /\ last'.val = [t |-> "MultipleObjectsReturned",
                                                n |-> n] ]_vars

(* The receiver of a bulk call is a list of instances of the bound Model. *)
ListOfModels(arg, hp) ==
    /\ arg.kind = "list"
    /\ \A i \in 1..Len(arg.items) : IsModel(hp[arg.items[i]])

(* The unique-field values of a response's records. *)
KeysOf(records) == {records[j][UniqueField] : j \in 1..Len(records)}

(* C8: bulk_create(instances) with a list of bound-Model instances makes    *)
(* exactly one bulk-create request carrying the serialized instances in     *)
(* input order; when the remote answers, it returns a new list of fresh     *)
(* instances, the i-th built from the i-th echoed record; the input list    *)
(* and every instance that existed before are as they were.                 *)
C8_BulkCreateReturnsFreshInstances ==
    [][ (last'.op = "bulk_create" /\ ListOfModels(last'.arg, heap)) =>
            /\ OneNewCall
            /\ NewCall.req =
                   [op |-> "bulk_create",
                    data |-> [i \in 1..Len(last'.arg.items) |->
                                 heap[last'.arg.items[i]].fields]]
            /\ instances' = last'.arg
            /\ \A i \in DOMAIN heap : heap'[i] = heap[i]
            /\ NewCall.resp.ok =>
                   /\ last'.out = "return"
                   /\ last'.val.t = "list"
                   /\ Len(last'.val.ids) = Len(NewCall.resp.records)
                   /\ \A i \in DOMAIN last'.val.ids :
                          /\ last'.val.ids[i] \notin DOMAIN heap
                          /\ \A j \in DOMAIN last'.val.ids :
                                 j # i => last'.val.ids[j] # last'.val.ids[i]
                          /\ heap'[last'.val.ids[i]] =
                                 [cls |-> "Model",
                                  fields |-> NewCall.resp.records[i]] ]_vars

(* bulk_create([a, b]) returned two fresh instances whose fields are the    *)
(* echoed records, which differ from what a and b hold.                     *)
C8_Witness ==
    /\ last.op = "bulk_create"
    /\ last.out = "return"
    /\ last.arg = [kind |-> "list", items |-> <<1, 2>>]
    /\ Len(calls) = 1
    /\ Len(last.val.ids) = 2
    /\ heap[last.val.ids[1]].fields = [pk |-> 2, name |-> "b", state |-> "s"]
    /\ heap[last.val.ids[2]].fields = [pk |-> 1, name |-> "b", state |-> "s"]
    /\ heap[1] = InitHeap[1]
    /\ heap[2] = InitHeap[2]

(* C9: bulk_update(instances, update_fields) with a list of bound-Model     *)
(* instances makes exactly one bulk-update request; when the remote answers *)
(* with a record for every instance's unique-field value, in whatever       *)
(* order, instances[i] is replaced in place by a fresh Model built from the *)
(* response record whose unique-field value is that of the original         *)
(* instances[i]; the list keeps its length and the call returns None.       *)
C9_BulkUpdateRejoinsByUniqueField ==
    [][ (last'.op = "bulk_update" /\ ListOfModels(last'.arg, heap)) =>
            /\ OneNewCall
            /\ NewCall.req.op = "bulk_update_patch"
            /\ Len(NewCall.req.data) = Len(last'.arg.items)
            /\ \A i \in DOMAIN heap : heap'[i] = heap[i]
            /\ ( /\ NewCall.resp.ok
                 /\ \A i \in 1..Len(last'.arg.items) :
                        heap[last'.arg.items[i]].fields[UniqueField]
                            \in KeysOf(NewCall.resp.records) )
               => /\ last'.out = "return"
                  /\ last'.val = PyNone
                  /\ instances'.kind = "list"
                  /\ Len(instances'.items) = Len(last'.arg.items)
                  /\ \A i \in 1..Len(last'.arg.items) :
                         LET new == instances'.items[i]
                             old == heap[last'.arg.items[i]]
                         IN  /\ new \notin DOMAIN heap
                             /\ heap'[new].cls = "Model"
                             /\ heap'[new].fields[UniqueField] =
                                    old.fields[UniqueField]
                             /\ \E j \in 1..Len(NewCall.resp.records) :
                                    heap'[new].fields = NewCall.resp.records[j]
       ]_vars

(* bulk_update([a, b], ...) answered in reverse order: b's record first.    *)
C9_Witness ==
    /\ last.op = "bulk_update"
    /\ last.out = "return"
    /\ last.arg = [kind |-> "list", items |-> <<1, 2>>]
    /\ Len(calls) = 1
    /\ calls[1].resp.records =
           << [pk |-> 2, name |-> "a", state |-> "s"],
              [pk |-> 1, name |-> "b", state |-> "s"] >>
    /\ heap[instances.items[1]].fields = [pk |-> 1, name |-> "b", state |-> "s"]
    /\ heap[instances.items[2]].fields = [pk |-> 2, name |-> "a", state |-> "s"]

(* C10: every patch bulk_update sends holds exactly the unique field and    *)
(* the fields named in update_fields, whatever update_fields names.         *)
C10_PatchCarriesUniqueField ==
    (last.op = "bulk_update" /\ Len(calls) > 0) =>
        \A i \in DOMAIN calls[Len(calls)].req.data :
            DOMAIN calls[Len(calls)].req.data[i] =
                {UniqueField} \cup last.update_fields

(* C11: repr of a Query with no cache requests at most REPR_OUTPUT_SIZE + 1 *)
(* rows: it makes one list request whose limit is at most that; when the    *)
(* remote answers it returns the rendering, which shows REPR_OUTPUT_SIZE    *)
(* elements and the truncation marker when more rows came back, and every   *)
(* row and no marker otherwise.                                             *)
C11_ReprRequestsBoundedRows ==
    [][ (last'.op = "repr" /\ queries[last'.recv].result_cache = None) =>
            /\ OneNewCall
            /\ NewCall.req.op = "list"
            /\ NewCall.req.limit # None
            /\ NewCall.req.limit[1] <= REPR_OUTPUT_SIZE + 1
            /\ NewCall.resp.ok =>
                   /\ last'.out = "return"
                   /\ last'.val.t = "str"
                   /\ last'.val.truncated =
                          (Len(NewCall.resp.rows) > REPR_OUTPUT_SIZE)
                   /\ Len(last'.val.shown) =
                          Min(Len(NewCall.resp.rows), REPR_OUTPUT_SIZE) ]_vars

(* C12: Manager.all() makes no request and returns a new Query with empty   *)
(* filter and exclude maps, an empty order list, no limit, no offset and no *)
(* cache; Manager.filter(p) makes no request and returns the Query that     *)
(* filter(p) gives on such a Query: the same state with filter map p.       *)
C12_ManagerAllIsUnconstrained ==
    [][ last'.op \in {"Manager.all", "Manager.filter"} =>
            /\ calls' = calls
            /\ last'.out = "return"
            /\ last'.val.t = "Query"
            /\ last'.val.id \notin DOMAIN queries
            /\ queries'[last'.val.id] =
                   IF last'.op = "Manager.all"
                   THEN Query__init__
                   ELSE [Query__init__ EXCEPT
                             !.filters = DictUpdate(EmptyMap, last'.arg)] ]_vars

(* C13: q[k] with k neither an int nor a slice raises a type error; with k  *)
(* a negative int, or a slice whose start or stop is negative, it raises a  *)
(* value error; either way no request is made and no Query changes.         *)
C13_InvalidIndexIsRejected ==
    [][ (last'.op = "getitem"
            /\ (last'.arg.t \notin {"int", "slice"} \/ ~IndexInRange(last'.arg)))
        => /\ last'.out = "raise"
           /\ last'.val = IF last'.arg.t \notin {"int", "slice"}
                          THEN Exc("TypeError")
                          ELSE Exc("ValueError")
           /\ calls' = calls
           /\ queries' = queries ]_vars

(* C14: bulk_create raises a type error and makes no request when its       *)
(* argument is not a list, and also when it is a list with an element that  *)
(* is not an instance of the bound Model.                                   *)
C14_BulkCreateRejectsWithTypeError ==
    [][ (last'.op = "bulk_create" /\ ~ListOfModels(last'.arg, heap)) =>
            /\ last'.out = "raise"
            /\ last'.val = Exc("TypeError")
            /\ calls' = calls
            /\ heap' = heap ]_vars

(* The field specifiers of an order list, whatever container holds them. *)
OrderOf(q) == q.order_fields.items

(* C15: narrowing is repeatable.  filter, exclude and order_by on a Query   *)
(* that is not Sliced return a Query that is not Sliced either, so that it  *)
(* can be narrowed again; order_by(fields) gives it the order list fields,  *)
(* filter and exclude the receiver's; and a slice q[a:b] of a Query with no *)
(* cache, an ordered one included, returns a Query with q's order list.     *)
C15_NarrowingIsRepeatable ==
    [][ /\ (last'.op \in Narrowings /\ ~Sliced(queries[last'.recv])) =>
               /\ last'.out = "return"
               /\ last'.val.t = "Query"
               /\ ~Sliced(queries'[last'.val.id])
               /\ OrderOf(queries'[last'.val.id]) =
                      IF last'.op = "order_by"
                      THEN last'.arg
                      ELSE OrderOf(queries[last'.recv])
        /\ ( /\ last'.op = "getitem"
             /\ last'.arg.t = "slice"
             /\ last'.arg.step = None
             /\ last'.arg.start # None
             /\ last'.arg.stop # None
             /\ 0 <= last'.arg.start[1]
             /\ last'.arg.start[1] <= last'.arg.stop[1]
             /\ ~Sliced(queries[last'.recv])
             /\ queries[last'.recv].result_cache = None ) =>
               /\ last'.out = "return"
               /\ last'.val.t = "Query"
               /\ OrderOf(queries'[last'.val.id]) =
                      OrderOf(queries[last'.recv]) ]_vars

(* C16: a Query that exists keeps its filter map, exclude map, order list,  *)
(* limit and offset through every call, on itself or on any other Query,    *)
(* and once it holds a result cache that cache stays as it is.              *)
C16_QueryStateIsFrozen ==
    [][ \A id \in DOMAIN queries :
            /\ id \in DOMAIN queries'
            /\ queries'[id].filters = queries[id].filters
            /\ queries'[id].excludes = queries[id].excludes
            /\ queries'[id].order_fields = queries[id].order_fields
            /\ queries'[id].limit = queries[id].limit
            /\ queries'[id].offset = queries[id].offset
            /\ queries[id].result_cache # None =>
                   queries'[id].result_cache = queries[id].result_cache ]_vars

(* Query 1 was constructed, sliced (Query 2, with offset 2 and limit 3) and *)
(* that slice narrowed (Query 3); Query 1 and Query 2 are as they were      *)
(* made.                                                                    *)
C16_Witness ==
    /\ Len(queries) = 3
    /\ queries[1] = Query__init__
    /\ queries[2] = [Query__init__ EXCEPT !.offset = Some(2), !.limit = Some(3)]
    /\ queries[3].filters = [x |-> 1]
    /\ queries[3].offset = Some(2)
    /\ last.op = "filter"
    /\ last.recv = 2
    /\ last.out = "return"

(* C17: a slice with no step and non-negative bounds whose start or stop is *)
(* absent, on a Query with no cache, makes no request and returns a Query:  *)
(* q[a:] with offset a and no limit, q[:b] with no offset, q[:] with no     *)
(* offset and no limit; a limit is computed only from two given bounds.     *)
C17_OpenSliceIsLazy ==
    [][ ( /\ last'.op = "getitem"
          /\ last'.arg.t = "slice"
          /\ last'.arg.step = None
          /\ IndexInRange(last'.arg)
          /\ (last'.arg.start = None \/ last'.arg.stop = None)
          /\ queries[last'.recv].result_cache = None )
        => /\ calls' = calls
           /\ last'.out = "return"
           /\ last'.val.t = "Query"
           /\ queries'[last'.val.id].offset = last'.arg.start
           /\ last'.arg.stop = None =>
                  queries'[last'.val.id].limit = None
           /\ queries'[last'.val.id].result_cache = None ]_vars

(* C18: clones share no state.  With several Queries alive, the first       *)
(* consumption of a clone (a slice) makes exactly one list request, with    *)
(* that clone's own filters, excludes, order list, limit and offset, caches *)
(* the answered rows on it alone, and leaves every other Query, its         *)
(* count and its cache included, as it was; this in whatever order the      *)
(* Queries are consumed.                                                    *)
C18_ClonesConsumeIndependently ==
    [][ ( /\ last'.op \in Consumptions
          /\ Len(queries) >= 2
          /\ Sliced(queries[last'.recv])
          /\ queries[last'.recv].result_cache = None )
        => /\ OneNewCall
           /\ NewCall.req = ListCall(last'.recv, queries[last'.recv])
           /\ NewCall.resp.ok =>
                  queries'[last'.recv].result_cache =
                      Some(ModelIterable_iter_results(NewCall.resp.rows))
           /\ \A other \in DOMAIN queries \ {last'.recv} :
                  queries'[other] = queries[other] ]_vars

(* C19: bulk_update is all-or-nothing for the caller's list: whenever it    *)
(* raises, because the remote call failed or because the response lacks the *)
(* unique-field value of a sent instance, the list is element for element   *)
(* what it was before the call.                                             *)
C19_BulkUpdateAllOrNothing ==
    [][ (last'.op = "bulk_update" /\ last'.out = "raise") =>
            instances' = last'.arg ]_vars

(* C20: the first consumption of a Query makes a list request, and when it  *)
(* fails it is with that request's failure, passed on as the remote raised  *)
(* it; the Query is then as before, with no cache and no count, and the     *)
(* next consumption of the same Query makes a list request again.           *)
C20_FailedFetchLeavesQueryUnmaterialized ==
    [][ /\ ( /\ last'.op \in Consumptions
             /\ queries[last'.recv].result_cache = None
             /\ last'.out = "raise" )
           => /\ OneNewCall
              /\ NewCall.req = ListCall(last'.recv, queries[last'.recv])
              /\ ~NewCall.resp.ok
              /\ last'.val = Exc("RemoteError")
              /\ queries'[last'.recv] = queries[last'.recv]
        /\ ( /\ last.op \in Consumptions
             /\ last.out = "raise"
             /\ last'.op \in Consumptions
             /\ last'.recv = last.recv )
           => /\ queries[last'.recv].result_cache = None
              /\ queries[last'.recv].count = None
              /\ OneNewCall
              /\ NewCall.req = ListCall(last'.recv, queries[last'.recv]) ]_vars

====
